---- MODULE Spec2Model ----
(***************************************************************************)
(* A model of the pagi-external-api-lib crate: configuration loading       *)
(* (config.rs), the OpenRouter chat client (llm_provider.rs) and the two   *)
(* placeholder clients (api_clients.rs).                                   *)
(*                                                                         *)
(* Three state machines share the variables below:                         *)
(*   SpecLoad  PAGIConfig::load over every environment / .env file         *)
(*   SpecChat  one generate_response call over every request and reply     *)
(*   Spec      several calls on the same clients, arbitrarily interleaved   *)
(***************************************************************************)
EXTENDS Integers, Sequences, FiniteSets, TLC

VARIABLES
    env,          \* the process environment: variable name -> OsValue
    dotenv,       \* the local .env file: [exists, lines]
    envAtLoad,    \* history: the environment on entry to the last load()
    loadResult,   \* outcome of PAGIConfig::load(): NotLoaded, Panicked or a config
    llm,          \* the LLMProvider, NoClient before LLMProvider::new()
    jira,         \* the JiraClient, NoClient before JiraClient::new(config)
    crowdstrike,  \* the CrowdstrikeClient
    calls,        \* call id -> the state of that call's future
    net           \* call id -> sequence of HTTP requests that call has sent

vars == <<env, dotenv, envAtLoad, loadResult, llm, jira, crowdstrike, calls, net>>

-----------------------------------------------------------------------------
(* Bounds of the model *)

\* longest .env file, in lines
MaxDotenvLines == 2
\* longest choices list of a chat response body
MaxChoices == 2
\* number of calls that may be in flight together under Spec
MaxCalls == 2

-----------------------------------------------------------------------------
(* Result<T, E> and Option<T> *)

Ok(v) == [ok |-> TRUE, val |-> v]
Err(e) == [ok |-> FALSE, err |-> e]

None == [some |-> FALSE]
Some(v) == [some |-> TRUE, val |-> v]

\* Option::unwrap_or
unwrap_or(o, d) == IF o.some THEN o.val ELSE d

\* Result::unwrap_or_else(|_| d)
unwrap_or_else(r, d) == IF r.ok THEN r.val ELSE d

\* Result::unwrap_or_default() at type String
unwrap_or_default(r) == IF r.ok THEN r.val ELSE ""

-----------------------------------------------------------------------------
(* The process environment.  A variable is unset, or set to an OsString    *)
(* that is or is not valid Unicode.                                         *)

KEY == "OPENROUTER_API_KEY"
MODEL == "OPENROUTER_DEFAULT_MODEL"
JIRA_TOKEN == "JIRA_API_TOKEN"
JIRA_URL == "JIRA_BASE_URL"
CS_TOKEN == "CROWDSTRIKE_API_TOKEN"
CS_URL == "CROWDSTRIKE_BASE_URL"
\* a variable the crate never reads
UNRELATED == "UNRELATED_VAR"

ConfigVars == {KEY, MODEL, JIRA_TOKEN, JIRA_URL, CS_TOKEN, CS_URL}
OptionalVars == ConfigVars \ {KEY}
EnvNames == ConfigVars \cup {UNRELATED}

Unset == [kind |-> "unset"]
Bytes == [kind |-> "bytes"]
Unicode(s) == [kind |-> "unicode", s |-> s]

IsUnicode(v) == v.kind = "unicode"

\* std::env::var: Err(NotPresent) when unset, Err(NotUnicode) when the value
\* is not valid Unicode, Ok(value) otherwise
env_var(e, name) ==
    IF e[name].kind = "unset" THEN Err("NotPresent")
    ELSE IF e[name].kind = "bytes" THEN Err("NotUnicode")
    ELSE Ok(e[name].s)

-----------------------------------------------------------------------------
(* The .env file, as dotenvy reads it: lines in order, each a KEY=value    *)
(* pair or a line that does not parse.                                      *)

Pair(k, v) == [kind |-> "pair", key |-> k, value |-> v]
BadLine == [kind |-> "bad"]

NoFile == [exists |-> FALSE, lines |-> <<>>]
File(ls) == [exists |-> TRUE, lines |-> ls]

\* dotenvy's Iter::load: each pair in order is set unless env::var(key)
\* already succeeds; the first line that fails to parse ends the load
RECURSIVE dotenvy_load(_, _)
dotenvy_load(e, lines) ==
    IF lines = <<>> THEN e
    ELSE LET l == Head(lines) IN
         IF l.kind = "bad" THEN e
         ELSE dotenvy_load(
                  IF env_var(e, l.key).ok THEN e
                  ELSE [e EXCEPT ![l.key] = Unicode(l.value)],
                  Tail(lines))

\* dotenvy::dotenv(): no file is an error the caller ignores
dotenvy_dotenv(e, f) == IF f.exists THEN dotenvy_load(e, f.lines) ELSE e

-----------------------------------------------------------------------------
(* PAGIConfig::load *)

DEFAULT_MODEL == "openai/gpt-4o-mini"
DEFAULT_JIRA_URL == "https://jira.example.com"
DEFAULT_CS_URL == "https://api.crowdstrike.com"

NotLoaded == [kind |-> "none"]
Panicked(msg) == [kind |-> "panic", msg |-> msg]
Loaded(c) == [kind |-> "config", config |-> c]

\* Result::expect(msg): the value, or a panic carrying msg
expect(r, msg) == IF r.ok THEN Loaded(r.val) ELSE Panicked(msg)

\* a mutation of read_required: a missing key is read as the empty string
read_required_lenient(e) == Loaded(unwrap_or_default(env_var(e, KEY)))

\* env::var("OPENROUTER_API_KEY").expect(..)
read_required(e) ==
    expect(env_var(e, KEY), "Missing required env var: OPENROUTER_API_KEY")

\* a mutation of read_optionals: the Jira base URL falls back to ""
read_optionals_no_url_default(e) ==
    [default_model |-> unwrap_or_else(env_var(e, MODEL), DEFAULT_MODEL),
     jira_api_token |-> unwrap_or_default(env_var(e, JIRA_TOKEN)),
     jira_base_url |-> unwrap_or_default(env_var(e, JIRA_URL)),
     crowdstrike_api_token |-> unwrap_or_default(env_var(e, CS_TOKEN)),
     crowdstrike_base_url |-> unwrap_or_else(env_var(e, CS_URL), DEFAULT_CS_URL)]

\* the five optional reads
read_optionals(e) ==
    [default_model |-> unwrap_or_else(env_var(e, MODEL), DEFAULT_MODEL),
     jira_api_token |-> unwrap_or_default(env_var(e, JIRA_TOKEN)),
     jira_base_url |-> unwrap_or_else(env_var(e, JIRA_URL), DEFAULT_JIRA_URL),
     crowdstrike_api_token |-> unwrap_or_default(env_var(e, CS_TOKEN)),
     crowdstrike_base_url |-> unwrap_or_else(env_var(e, CS_URL), DEFAULT_CS_URL)]

\* the value PAGIConfig::load returns (or its panic) in environment e, read
\* after the .env merge
load_from(e) ==
    LET k == read_required(e)
        o == read_optionals(e)
    IN IF k.kind = "panic" THEN k
       ELSE Loaded([openrouter_api_key |-> k.config,
                    default_model |-> o.default_model,
                    jira_api_token |-> o.jira_api_token,
                    jira_base_url |-> o.jira_base_url,
                    crowdstrike_api_token |-> o.crowdstrike_api_token,
                    crowdstrike_base_url |-> o.crowdstrike_base_url])

\* a mutation of merged_env: values of the file replace those already set,
\* as dotenvy::dotenv_override does
RECURSIVE dotenvy_load_override(_, _)
dotenvy_load_override(e, lines) ==
    IF lines = <<>> THEN e
    ELSE LET l == Head(lines) IN
         IF l.kind = "bad" THEN e
         ELSE dotenvy_load_override([e EXCEPT ![l.key] = Unicode(l.value)], Tail(lines))

merged_env_overriding(e, f) ==
    IF f.exists THEN dotenvy_load_override(e, f.lines) ELSE e

\* the environment PAGIConfig::load leaves behind: `let _ = dotenvy::dotenv()`
merged_env(e, f) == dotenvy_dotenv(e, f)

\* PAGIConfig::load(), called directly
load ==
    /\ loadResult = NotLoaded
    /\ envAtLoad' = env
    /\ env' = merged_env(env, dotenv)
    /\ loadResult' = load_from(env')
    /\ UNCHANGED <<dotenv, llm, jira, crowdstrike, calls, net>>

-----------------------------------------------------------------------------
(* The clients.  Each holds its own copy of a PAGIConfig. *)

NoClient == [kind |-> "none"]
Client(c) == [kind |-> "client", config |-> c]

\* the unwinding panic of load() ends the program
Alive == loadResult.kind # "panic"

\* LLMProvider::new(): config: PAGIConfig::load(), client: reqwest::Client::new()
LLMProvider_new ==
    /\ Alive
    /\ llm = NoClient
    /\ envAtLoad' = env
    /\ env' = merged_env(env, dotenv)
    /\ loadResult' = load_from(env')
    /\ llm' = IF loadResult'.kind = "config" THEN Client(loadResult'.config) ELSE llm
    /\ UNCHANGED <<dotenv, jira, crowdstrike, calls, net>>

\* JiraClient::new(config), given a clone of the loaded configuration
JiraClient_new ==
    /\ loadResult.kind = "config"
    /\ jira = NoClient
    /\ jira' = Client(loadResult.config)
    /\ UNCHANGED <<env, dotenv, envAtLoad, loadResult, llm, crowdstrike, calls, net>>

\* CrowdstrikeClient::new(config)
CrowdstrikeClient_new ==
    /\ loadResult.kind = "config"
    /\ crowdstrike = NoClient
    /\ crowdstrike' = Client(loadResult.config)
    /\ UNCHANGED <<env, dotenv, envAtLoad, loadResult, llm, jira, calls, net>>

-----------------------------------------------------------------------------
(* The chat request *)

ENDPOINT == "https://openrouter.ai/api/v1/chat/completions"

OpenRouterMessage(role, content) == [role |-> role, content |-> content]

\* a mutation of request_messages: the user message is put first
request_messages_swapped(prompt, system_prompt) ==
    <<OpenRouterMessage("user", prompt), OpenRouterMessage("system", system_prompt)>>

\* messages: vec![ system, user ]
request_messages(prompt, system_prompt) ==
    <<OpenRouterMessage("system", system_prompt), OpenRouterMessage("user", prompt)>>

\* a mutation of effective_model: the override is ignored
effective_model_default_only(config, model) == config.default_model

\* model.unwrap_or(&self.config.default_model)
effective_model(config, model) == unwrap_or(model, config.default_model)

\* the request generate_response hands to send()
build_request(config, prompt, system_prompt, model) ==
    [method |-> "POST",
     url |-> ENDPOINT,
     bearer |-> config.openrouter_api_key,
     headers |-> <<<<"HTTP-Referer", "https://localhost">>,
                   <<"X-Title", "pagi-external-api-lib">>>>,
     json |-> [model |-> effective_model(config, model),
               messages |-> request_messages(prompt, system_prompt)]]

-----------------------------------------------------------------------------
(* The chat reply *)

\* what send().await yields: a transport failure, or a response with a status
\* line and the body the server goes on to deliver
NetworkFailure == [kind |-> "failure"]
Response(status, body) == [kind |-> "response", status |-> status, body |-> body]

\* StatusCode::is_client_error / is_server_error
is_client_error(status) == status >= 400 /\ status < 500
is_server_error(status) == status >= 500 /\ status < 600

\* a mutation of error_for_status: every status passes
error_for_status_never(status) == Ok(status)

\* Response::error_for_status: an error for 4xx and 5xx, the response otherwise
error_for_status(status) ==
    IF is_client_error(status) \/ is_server_error(status)
    THEN Err("status") ELSE Ok(status)

\* response bodies: not JSON at all, or a JSON object with an id that is
\* absent, a string or of another type, and choices that are absent or a list
\* whose elements have the shape {message: {content: <string>}} or do not
Malformed == [kind |-> "malformed"]
Object(id, choices) == [kind |-> "object", id |-> id, choices |-> choices]
MissingField == [kind |-> "missing"]
Field(v) == [kind |-> "field", val |-> v]
WrongType == [kind |-> "wrongtype"]
Choice(content) == [conforming |-> TRUE, content |-> content]
BadChoice == [conforming |-> FALSE]

\* serde's derived Deserialize for OpenRouterChatCompletionsResponse
deserialize(b) ==
    IF b.kind = "malformed" THEN Err("decode")
    ELSE IF b.id.kind = "wrongtype" THEN Err("decode")
    ELSE IF b.choices.kind # "field" THEN Err("decode")
    ELSE IF \E k \in 1..Len(b.choices.val) : ~b.choices.val[k].conforming
         THEN Err("decode")
    ELSE Ok([id |-> IF b.id.kind = "field" THEN Some(b.id.val) ELSE None,
             choices |-> [k \in 1..Len(b.choices.val) |->
                             [message |-> [content |-> b.choices.val[k].content]]]])

\* a mutation of first_content: the last choice is surfaced
first_content_last(resp) ==
    IF resp.choices = <<>> THEN ""
    ELSE resp.choices[Len(resp.choices)].message.content

\* resp.choices.into_iter().next().map(|c| c.message.content).unwrap_or_default()
first_content(resp) ==
    IF resp.choices = <<>> THEN "" ELSE Head(resp.choices).message.content

\* a body whose transfer breaks off: .json().await fails before parsing
BodyFailure == [kind |-> "failure"]

\* the value of generate_response once the read of body b has resolved
body_result(b) ==
    IF b.kind = "failure" THEN Err("body")
    ELSE LET r == deserialize(b) IN
         IF r.ok THEN Ok(first_content(r.val)) ELSE Err(r.err)

-----------------------------------------------------------------------------
(* Calls.  A call is a future: generate_response suspends at send().await   *)
(* and at json().await; create_issue and isolate_host have no await and run  *)
(* to completion in one step.                                               *)

CallIds == 1..MaxCalls

Nil == [kind |-> "nil"]
Unit == "()"

Idle == [pc |-> "idle", op |-> "none", args |-> Nil, sent |-> Nil, result |-> Nil]

\* a mutation of build_request_for: the message list is taken from a buffer
\* shared with the call that is waiting in send(), when there is one
build_request_shared(i, prompt, system_prompt, model) ==
    LET waiting == {j \in CallIds : calls[j].pc = "send"}
        own == build_request(llm.config, prompt, system_prompt, model)
    IN IF waiting = {} THEN own
       ELSE LET j == CHOOSE j \in waiting : TRUE
            IN [own EXCEPT !.json.messages = net[j][1].json.messages]

\* the request call i builds from &self and its own arguments
build_request_for(i, prompt, system_prompt, model) ==
    build_request(llm.config, prompt, system_prompt, model)

\* generate_response up to send().await: the body is built and the POST issued
generate_response(i, prompt, system_prompt, model) ==
    /\ Alive
    /\ llm # NoClient
    /\ calls[i] = Idle
    /\ net' = [net EXCEPT ![i] =
                  Append(@, build_request_for(i, prompt, system_prompt, model))]
    /\ calls' = [calls EXCEPT ![i] =
                    [Idle EXCEPT !.pc = "send", !.op = "generate_response",
                                 !.args = [prompt |-> prompt,
                                           system_prompt |-> system_prompt,
                                           model |-> model]]]
    /\ UNCHANGED <<env, dotenv, envAtLoad, loadResult, llm, jira, crowdstrike>>

\* the state of a call whose send() has resolved to outcome
after_send(c, outcome) ==
    IF outcome.kind = "failure"
    THEN [c EXCEPT !.pc = "done", !.sent = outcome, !.result = Err("request")]
    ELSE LET s == error_for_status(outcome.status) IN
         IF s.ok THEN [c EXCEPT !.pc = "body", !.sent = outcome]
         ELSE [c EXCEPT !.pc = "done", !.sent = outcome, !.result = Err(s.err)]

\* a mutation of send_resolved: a transport failure is retried once
send_resolved_retrying(i, outcome) ==
    /\ calls[i].pc = "send"
    /\ IF outcome.kind = "failure" /\ Len(net[i]) < 2
       THEN /\ net' = [net EXCEPT ![i] = Append(@, net[i][1])]
            /\ calls' = calls
       ELSE /\ net' = net
            /\ calls' = [calls EXCEPT ![i] = after_send(@, outcome)]
    /\ UNCHANGED <<env, dotenv, envAtLoad, loadResult, llm, jira, crowdstrike>>

\* send().await? resolves, then .error_for_status()? runs
send_resolved(i, outcome) ==
    /\ calls[i].pc = "send"
    /\ calls' = [calls EXCEPT ![i] = after_send(@, outcome)]
    /\ UNCHANGED <<env, dotenv, envAtLoad, loadResult, llm, jira, crowdstrike, net>>

\* .json::<OpenRouterChatCompletionsResponse>().await? resolves and the
\* function returns
body_resolved(i) ==
    /\ calls[i].pc = "body"
    /\ calls' = [calls EXCEPT ![i] =
                    [@ EXCEPT !.pc = "done", !.result = body_result(calls[i].sent.body)]]
    /\ UNCHANGED <<env, dotenv, envAtLoad, loadResult, llm, jira, crowdstrike, net>>

\* a mutation of create_issue_result: the wrong token is tested
create_issue_result_wrong_token(config) ==
    IF config.crowdstrike_api_token = "" THEN Err("JIRA_API_TOKEN is not set")
    ELSE Ok(Unit)

\* the value of JiraClient::create_issue
create_issue_result(config) ==
    IF config.jira_api_token = "" THEN Err("JIRA_API_TOKEN is not set")
    ELSE Ok(Unit)

\* the value of CrowdstrikeClient::isolate_host
isolate_host_result(config) ==
    IF config.crowdstrike_api_token = "" THEN Err("CROWDSTRIKE_API_TOKEN is not set")
    ELSE Ok(Unit)

\* JiraClient::create_issue(summary)
create_issue(i, summary) ==
    /\ Alive
    /\ jira # NoClient
    /\ calls[i] = Idle
    /\ calls' = [calls EXCEPT ![i] =
                    [Idle EXCEPT !.pc = "done", !.op = "create_issue",
                                 !.args = [summary |-> summary],
                                 !.result = create_issue_result(jira.config)]]
    /\ UNCHANGED <<env, dotenv, envAtLoad, loadResult, llm, jira, crowdstrike, net>>

\* CrowdstrikeClient::isolate_host(hostname)
isolate_host(i, hostname) ==
    /\ Alive
    /\ crowdstrike # NoClient
    /\ calls[i] = Idle
    /\ calls' = [calls EXCEPT ![i] =
                    [Idle EXCEPT !.pc = "done", !.op = "isolate_host",
                                 !.args = [hostname |-> hostname],
                                 !.result = isolate_host_result(crowdstrike.config)]]
    /\ UNCHANGED <<env, dotenv, envAtLoad, loadResult, llm, jira, crowdstrike, net>>

-----------------------------------------------------------------------------
(* Inputs *)

\* sequences over S of length at most n
RECURSIVE SeqsUpTo(_, _)
SeqsUpTo(S, n) ==
    IF n = 0 THEN {<<>>}
    ELSE LET shorter == SeqsUpTo(S, n - 1)
         IN shorter \cup {Append(q, x) : q \in {r \in shorter : Len(r) = n - 1}, x \in S}

\* environments of SpecLoad: every presence of every variable the crate reads
LoadEnvs ==
    {e \in [EnvNames -> {Unset, Bytes, Unicode(""), Unicode("v")}] :
        /\ e[UNRELATED] \in {Unset, Unicode("v")}
        /\ \A n \in OptionalVars : e[n] # Unicode("")}

DotenvLines ==
    {Pair(KEY, "f"), Pair(KEY, "g"), Pair(MODEL, "f"), Pair(MODEL, "g"),
     Pair(UNRELATED, "f"), BadLine}

DotenvFiles == {NoFile} \cup {File(ls) : ls \in SeqsUpTo(DotenvLines, MaxDotenvLines)}

\* environments of SpecChat: the key set or not, the default model set or not
ChatEnvs ==
    {e \in [EnvNames -> {Unset, Unicode("k"), Unicode("m1")}] :
        /\ e[KEY] \in {Unset, Unicode("k")}
        /\ e[MODEL] \in {Unset, Unicode("m1")}
        /\ \A n \in EnvNames \ {KEY, MODEL} : e[n] = Unset}

Prompts == {"p1", "p2"}
SystemPrompts == {"s1", "p1"}
Models == {None, Some("m1"), Some("m2")}

Statuses == {200, 204, 304, 404, 500}

Contents == {"hello", "bye"}
ChoiceLists == SeqsUpTo({Choice(c) : c \in Contents} \cup {BadChoice}, MaxChoices)
Bodies ==
    {Malformed} \cup
    {Object(id, ch) : id \in {MissingField, Field("gen-1"), WrongType},
                      ch \in {MissingField, WrongType} \cup {Field(l) : l \in ChoiceLists}}
SendOutcomes ==
    {NetworkFailure} \cup {Response(s, b) : s \in Statuses, b \in {BodyFailure} \cup Bodies}

\* environments of Spec: the key set, each token unset, empty or set
ParEnvs ==
    {e \in [EnvNames -> {Unset, Unicode(""), Unicode("k"), Unicode("m1"), Unicode("t")}] :
        /\ e[KEY] = Unicode("k")
        /\ e[MODEL] \in {Unset, Unicode("m1")}
        /\ <<e[JIRA_TOKEN], e[CS_TOKEN]>> \in
              {<<Unset, Unicode("t")>>, <<Unicode(""), Unicode("t")>>,
               <<Unicode("t"), Unset>>}
        /\ \A n \in {JIRA_URL, CS_URL, UNRELATED} : e[n] = Unset}

\* the argument lists of the generate_response calls of Spec
ParArgs ==
    {[prompt |-> "p1", system_prompt |-> "s1", model |-> None],
     [prompt |-> "p2", system_prompt |-> "s2", model |-> Some("m2")]}
ParSendOutcomes ==
    {NetworkFailure,
     Response(500, Object(MissingField, Field(<<Choice("hello")>>))),
     Response(200, BodyFailure),
     Response(200, Malformed),
     Response(200, Object(MissingField, Field(<<>>))),
     Response(200, Object(MissingField, Field(<<Choice("hello")>>)))}
Summaries == {"disk full"}
Hostnames == {"host-1"}

-----------------------------------------------------------------------------
(* The state machines *)

InitRest ==
    /\ envAtLoad = env
    /\ loadResult = NotLoaded
    /\ llm = NoClient
    /\ jira = NoClient
    /\ crowdstrike = NoClient
    /\ calls = [i \in CallIds |-> Idle]
    /\ net = [i \in CallIds |-> <<>>]

InitLoad == env \in LoadEnvs /\ dotenv \in DotenvFiles /\ InitRest

NextLoad == load \/ LLMProvider_new

SpecLoad == InitLoad /\ [][NextLoad]_vars

InitChat == env \in ChatEnvs /\ dotenv = NoFile /\ InitRest

NextChat ==
    \/ LLMProvider_new
    \/ \E p \in Prompts, s \in SystemPrompts, m \in Models : generate_response(1, p, s, m)
    \/ \E o \in SendOutcomes : send_resolved(1, o)
    \/ body_resolved(1)

SpecChat == InitChat /\ [][NextChat]_vars

Init == env \in ParEnvs /\ dotenv = NoFile /\ InitRest

Next ==
    \/ LLMProvider_new
    \/ JiraClient_new
    \/ CrowdstrikeClient_new
    \/ \E i \in CallIds, a \in ParArgs :
          generate_response(i, a.prompt, a.system_prompt, a.model)
    \/ \E i \in CallIds, o \in ParSendOutcomes : send_resolved(i, o)
    \/ \E i \in CallIds : body_resolved(i)
    \/ \E i \in CallIds, s \in Summaries : create_issue(i, s)
    \/ \E i \in CallIds, h \in Hostnames : isolate_host(i, h)

Spec == Init /\ [][Next]_vars

-----------------------------------------------------------------------------
(* Properties of PAGIConfig::load, checked under SpecLoad.  They are stated *)
(* over the inputs of load: the environment on entry and the .env file.     *)

HasLoaded == loadResult # NotLoaded

\* the lines of the file that dotenvy reaches: those before the first line
\* that does not parse
ReachedLines(f) ==
    IF ~f.exists THEN <<>>
    ELSE LET bad == {k \in 1..Len(f.lines) : f.lines[k].kind = "bad"}
             stop == IF bad = {} THEN Len(f.lines) + 1
                     ELSE CHOOSE k \in bad : \A j \in bad : k <= j
         IN SubSeq(f.lines, 1, stop - 1)

\* the value the file gives a variable: that of the first reached line naming it
FileValue(f, name) ==
    LET ls == ReachedLines(f)
        at == {k \in 1..Len(ls) : ls[k].key = name}
    IN IF at = {} THEN None
       ELSE Some(ls[CHOOSE k \in at : \A j \in at : k <= j].value)

\* the value a variable has for load: its valid-Unicode value in the
\* environment, else the value the file gives it, else none
Provided(name) ==
    IF IsUnicode(envAtLoad[name]) THEN Some(envAtLoad[name].s)
    ELSE FileValue(dotenv, name)

FieldOf(c, name) ==
    CASE name = MODEL -> c.default_model
      [] name = JIRA_TOKEN -> c.jira_api_token
      [] name = JIRA_URL -> c.jira_base_url
      [] name = CS_TOKEN -> c.crowdstrike_api_token
      [] name = CS_URL -> c.crowdstrike_base_url

DocumentedDefault(name) ==
    CASE name = MODEL -> "openai/gpt-4o-mini"
      [] name = JIRA_TOKEN -> ""
      [] name = JIRA_URL -> "https://jira.example.com"
      [] name = CS_TOKEN -> ""
      [] name = CS_URL -> "https://api.crowdstrike.com"

\* the statement of C1 over environment e
AbortsIffKeyMissingIn(e) ==
    /\ e[KEY] = Unset => loadResult.kind = "panic"
    /\ e[KEY] # Unset => loadResult.kind = "config"

\* C1 as stated: load panics when OPENROUTER_API_KEY is missing from the
\* environment and returns a configuration whenever the key is present in it,
\* the environment being read either as the one load is called in or as the
\* one it reads after the .env merge.
C1_AbortsIffKeyMissing ==
    HasLoaded => AbortsIffKeyMissingIn(envAtLoad) \/ AbortsIffKeyMissingIn(env)

\* C1 amended: load panics exactly when OPENROUTER_API_KEY is neither set to
\* valid Unicode in the environment nor given by the .env file, and otherwise
\* returns a configuration carrying that value, whatever the other five
\* variables hold.
C1_AbortsIffKeyUnavailable ==
    HasLoaded =>
        /\ loadResult.kind = "panic" <=> ~Provided(KEY).some
        /\ loadResult.kind = "config" <=> Provided(KEY).some
        /\ loadResult.kind = "config" =>
               loadResult.config.openrouter_api_key = Provided(KEY).val

\* load has panicked although a .env file exists and other variables are set
C1_Witness ==
    /\ loadResult.kind = "panic"
    /\ dotenv.exists
    /\ envAtLoad[KEY] = Unset
    /\ envAtLoad[JIRA_TOKEN] = Unicode("v")
    /\ envAtLoad[CS_URL] = Bytes

\* the statement of C2 over environment e
DefaultOrVerbatimIn(e) ==
    \A n \in OptionalVars :
        /\ e[n] = Unset => FieldOf(loadResult.config, n) = DocumentedDefault(n)
        /\ e[n] # Unset => e[n] = Unicode(FieldOf(loadResult.config, n))

\* C2 as stated: each optional field is its fixed default when the variable
\* is unset and the variable's value verbatim when it is set, the environment
\* being read either as the one load is called in or as the one it reads
\* after the .env merge.
C2_DefaultOrVerbatim ==
    loadResult.kind = "config" =>
        DefaultOrVerbatimIn(envAtLoad) \/ DefaultOrVerbatimIn(env)

\* C2 amended: each optional field is the variable's value verbatim when the
\* environment holds it as valid Unicode, else the value the .env file gives
\* it, else its fixed default.
C2_ProvidedOrDefault ==
    loadResult.kind = "config" =>
        \A n \in OptionalVars :
            FieldOf(loadResult.config, n) =
                IF Provided(n).some THEN Provided(n).val ELSE DocumentedDefault(n)

\* a configuration was loaded with one optional variable set, one unset and
\* one not valid Unicode
C2_Witness ==
    /\ loadResult.kind = "config"
    /\ envAtLoad[JIRA_URL] = Unicode("v")
    /\ loadResult.config.jira_base_url = "v"
    /\ envAtLoad[CS_URL] = Unset
    /\ envAtLoad[MODEL] = Bytes
    /\ ~FileValue(dotenv, MODEL).some

\* C8 as stated: the environment after load is the environment before it.
C8_EnvUnchanged == HasLoaded => env = envAtLoad

\* C8 amended: load changes the environment only by setting, from the .env
\* file, variables that were unset or not valid Unicode; every other variable,
\* and every variable when there is no file, is as before.
C8_EnvChangedOnlyByDotenv ==
    HasLoaded =>
        \A n \in EnvNames :
            env[n] = IF ~IsUnicode(envAtLoad[n]) /\ FileValue(dotenv, n).some
                     THEN Unicode(FileValue(dotenv, n).val)
                     ELSE envAtLoad[n]

\* load has run with a file naming a variable that was set and one that was not
C8_Witness ==
    /\ HasLoaded
    /\ FileValue(dotenv, MODEL).some
    /\ IsUnicode(envAtLoad[MODEL])
    /\ FileValue(dotenv, UNRELATED).some
    /\ envAtLoad[UNRELATED] = Unset
    /\ env[UNRELATED] = Unicode("f")

-----------------------------------------------------------------------------
(* Properties of generate_response, checked under SpecChat *)

IsChat(i) == calls[i].op = "generate_response"
IsDone(i) == calls[i].pc = "done"

\* C3: the request of every generate_response call carries exactly two
\* messages, the system message with system_prompt and then the user message
\* with prompt.
C3_TwoMessagesSystemThenUser ==
    \A i \in CallIds :
        IsChat(i) =>
            /\ net[i] # <<>>
            /\ \A k \in 1..Len(net[i]) :
                   /\ Len(net[i][k].json.messages) = 2
                   /\ net[i][k].json.messages[1] =
                          [role |-> "system", content |-> calls[i].args.system_prompt]
                   /\ net[i][k].json.messages[2] =
                          [role |-> "user", content |-> calls[i].args.prompt]

\* a request is out whose prompt and system prompt differ
C3_Witness ==
    /\ IsChat(1)
    /\ calls[1].args.prompt = "p2"
    /\ calls[1].args.system_prompt = "p1"
    /\ Len(net[1]) = 1

\* C4: the request's model is the override when one is given and the
\* configuration's default model otherwise.
C4_ModelOverrideOrDefault ==
    \A i \in CallIds :
        IsChat(i) =>
            /\ net[i] # <<>>
            /\ \A k \in 1..Len(net[i]) :
                   net[i][k].json.model =
                       IF calls[i].args.model = None THEN llm.config.default_model
                       ELSE calls[i].args.model.val

\* a call with an override went out from a provider whose default model
\* comes from the environment
C4_Witness ==
    /\ IsChat(1)
    /\ calls[1].args.model = Some("m2")
    /\ llm.config.default_model = "m1"
    /\ Len(net[1]) = 1

IsSuccess(status) == status >= 200 /\ status <= 299

\* a body of the shape {id?, choices: [{message: {content}}, ...]}
Conforming(b) ==
    /\ b.kind = "object"
    /\ b.id.kind # "wrongtype"
    /\ b.choices.kind = "field"
    /\ \A k \in 1..Len(b.choices.val) : b.choices.val[k].conforming

\* C5: on a success status and a conforming body the result is Ok with the
\* content of the first choice, and Ok("") when there is no choice.
C5_FirstChoiceOrEmpty ==
    \A i \in CallIds :
        (/\ IsChat(i) /\ IsDone(i)
         /\ calls[i].sent.kind = "response"
         /\ IsSuccess(calls[i].sent.status)
         /\ Conforming(calls[i].sent.body)) =>
            calls[i].result =
                Ok(IF calls[i].sent.body.choices.val = <<>> THEN ""
                   ELSE calls[i].sent.body.choices.val[1].content)

\* a call returned the first of two different choices
C5_Witness ==
    /\ IsChat(1) /\ IsDone(1)
    /\ calls[1].sent.kind = "response"
    /\ calls[1].sent.status = 200
    /\ Conforming(calls[1].sent.body)
    /\ Len(calls[1].sent.body.choices.val) = 2
    /\ calls[1].sent.body.choices.val[1].content = "bye"
    /\ calls[1].sent.body.choices.val[2].content = "hello"
    /\ calls[1].result = Ok("bye")

\* the reply could not be read or does not conform
BodyFails(b) == b.kind = "failure" \/ ~Conforming(b)

-----------------------------------------------------------------------------
(* Properties of calls in parallel, checked under Spec *)

\* C7: create_issue and isolate_host return the error naming the missing
\* variable when their client's token is empty and Ok(()) otherwise, and
\* send nothing.
C7_StubsCheckTokenOnly ==
    \A i \in CallIds :
        /\ calls[i].op = "create_issue" =>
               /\ IsDone(i)
               /\ calls[i].result =
                      IF jira.config.jira_api_token = ""
                      THEN Err("JIRA_API_TOKEN is not set") ELSE Ok(Unit)
               /\ net[i] = <<>>
        /\ calls[i].op = "isolate_host" =>
               /\ IsDone(i)
               /\ calls[i].result =
                      IF crowdstrike.config.crowdstrike_api_token = ""
                      THEN Err("CROWDSTRIKE_API_TOKEN is not set") ELSE Ok(Unit)
               /\ net[i] = <<>>

\* create_issue failed on an empty token while isolate_host succeeded
C7_Witness ==
    /\ calls[1].op = "create_issue"
    /\ jira.config.jira_api_token = ""
    /\ ~calls[1].result.ok
    /\ calls[2].op = "isolate_host"
    /\ crowdstrike.config.crowdstrike_api_token = "t"
    /\ calls[2].result = Ok(Unit)

\* the request a generate_response call with arguments a sends when it runs
\* alone on a provider with configuration c
RequestAlone(c, a) ==
    [method |-> "POST",
     url |-> "https://openrouter.ai/api/v1/chat/completions",
     bearer |-> c.openrouter_api_key,
     headers |-> <<<<"HTTP-Referer", "https://localhost">>,
                   <<"X-Title", "pagi-external-api-lib">>>>,
     json |-> [model |-> IF a.model = None THEN c.default_model ELSE a.model.val,
               messages |-> <<[role |-> "system", content |-> a.system_prompt],
                              [role |-> "user", content |-> a.prompt]>>]]

\* whether r is the result of a generate_response call that runs alone and
\* receives reply
IsResultAlone(r, reply) ==
    IF \/ reply.kind = "failure"
       \/ (reply.status >= 400 /\ reply.status <= 599)
       \/ BodyFails(reply.body)
    THEN ~r.ok
    ELSE r = Ok(IF reply.body.choices.val = <<>> THEN ""
                ELSE reply.body.choices.val[1].content)

\* every call's request and result are those of the call run alone
CallsAsAlone ==
    \A i \in CallIds :
        /\ IsChat(i) =>
               /\ net[i] = <<RequestAlone(llm.config, calls[i].args)>>
               /\ IsDone(i) => IsResultAlone(calls[i].result, calls[i].sent)
        /\ calls[i].op = "create_issue" =>
               /\ net[i] = <<>>
               /\ calls[i].result.ok <=> jira.config.jira_api_token # ""
        /\ calls[i].op = "isolate_host" =>
               /\ net[i] = <<>>
               /\ calls[i].result.ok <=> crowdstrike.config.crowdstrike_api_token # ""

\* no step changes a client once it is constructed
ClientsKept ==
    /\ llm # NoClient => llm' = llm
    /\ jira # NoClient => jira' = jira
    /\ crowdstrike # NoClient => crowdstrike' = crowdstrike

\* C10: under every interleaving no operation changes a client's
\* configuration, and each call's request and result are what the call
\* produces from its own arguments, the configuration and its own reply.
C10_CallsIndependent == []CallsAsAlone /\ [][ClientsKept]_vars

\* two chat calls with different arguments are in flight together, one
\* already past send() and the other still waiting in it
C10_Witness ==
    /\ IsChat(1) /\ calls[1].pc = "body"
    /\ IsChat(2) /\ calls[2].pc = "send"
    /\ calls[1].args # calls[2].args
    /\ jira # NoClient

====
